---- MODULE Spec2Model ----
(***************************************************************************)
(* A model of rhasspytts_larynx_hermes.TtsHermesMqtt: the handling of TtsSay *)
(* requests (handle_say), of AudioPlayFinished messages (on_message), the   *)
(* sentence cache and the cache key (VoiceInfo.cache_id, get_sentence_hash). *)
(*                                                                         *)
(* Strings that are concatenated or hashed (cache ids, sentence texts) are  *)
(* sequences of symbols.  Optional numbers are sequences of length <= 1     *)
(* (<<>> is None).  Optional strings use the value None.                    *)
(*                                                                         *)
(* handle_say is an async generator running on one event loop: the code     *)
(* between two suspension points (a yield, an await) runs atomically, and   *)
(* every yield and await is a point where another handler may run.  Each    *)
(* action of a handler runs it from one suspension point to the next.       *)
(***************************************************************************)
EXTENDS Integers, Sequences, FiniteSets, TLC

VARIABLES
    cache_dir,             \* self.cache_dir: None or the cache directory
    play_command,          \* self.play_command: None or the command
    volume,                \* self.volume: <<>> (None) or <<percent>>
    play_finished_events,  \* self.play_finished_events: request_id -> Event (its number)
    cache,                 \* the files of the cache directory: path -> bytes
    nsay,                  \* number of TtsSay messages received so far
    pc,                    \* per handler task: where handle_say is suspended
    say,                   \* per handler task: the TtsSay message being handled
    loc,                   \* per handler task: the local variables of handle_say
    out,                   \* per handler task: the messages yielded so far
    trace,                 \* per handler task: what the handler has done (history)
    hin,                   \* inputs of the cache-key computations (key specification)
    hout                   \* their results

vars == <<cache_dir, play_command, volume, play_finished_events, cache, nsay,
          pc, say, loc, out, trace, hin, hout>>

sayVars == <<cache_dir, play_command, volume, play_finished_events, cache, nsay,
             pc, say, loc, out, trace>>

-----------------------------------------------------------------------------
(* Bounds *)

\* TtsSay messages received in one run
MaxSay == 2

\* longest string given to get_sentence_hash in the key specification
MaxLen == 2

-----------------------------------------------------------------------------
(* Values *)

None == "None"

\* handler tasks that may run concurrently on the event loop
Tasks == {"task1", "task2"}

\* b"" (and the initial wav_bytes = None, which is tested only for truth)
EmptyBytes == [voice |-> None, text |-> <<>>, peak |-> 0, nbytes |-> 0]

\* cached_wav_path = None
NoPath == [digest |-> <<>>]

\* VoiceInfo.sample_rate default
sample_rate == 22050

\* self.finished_timeout_extra, in milliseconds
finished_timeout_extra == 250

-----------------------------------------------------------------------------
(* Configuration: the voices and default_voice given to __init__ *)

\* Two voices whose models live in different directories under the same file
\* names, and differ in nothing else but their name.
voices ==
    [default |-> [name |-> "default", language |-> "en-us",
                  tts_model_type |-> "glow_tts",
                  tts_model_path |-> <<"voices", "default", "model">>,
                  vocoder_model_type |-> "hifi_gan",
                  vocoder_model_path |-> <<"vocoders", "default", "generator">>],
     alt     |-> [name |-> "alt", language |-> "en-us",
                  tts_model_type |-> "glow_tts",
                  tts_model_path |-> <<"voices", "alt", "model">>,
                  vocoder_model_type |-> "hifi_gan",
                  vocoder_model_path |-> <<"vocoders", "alt", "generator">>]]

default_voice == "default"

\* pathlib.Path.name: the last component of a path
PathName(path) == path[Len(path)]

\* VoiceInfo.cache_id.  The first operand is a plain string literal, not an
\* f-string: it contributes the text "{self.name}", not the voice's name.
cache_id(self) ==
    <<"{self.name}">>
        \o <<"_", self.language>>
        \o <<"_", self.tts_model_type>>
        \o <<"_", PathName(self.tts_model_path)>>
        \o <<"_", self.vocoder_model_type>>
        \o <<"_", PathName(self.vocoder_model_path)>>

-----------------------------------------------------------------------------
(* The cache key *)

\* hashlib.md5 over the encoded string.  The digest is modelled as injective
\* on the data it digests (collisions of the hash itself are not modelled):
\* two digests are equal exactly when the digested strings are equal.
md5(data) == [digest |-> data]

\* get_sentence_hash with the sentence left as a literal placeholder in the
\* format string
get_sentence_hash_placeholder(voice, sentence) ==
    md5(voice \o <<"_">> \o <<"{sentence}">>)

\* TtsHermesMqtt.get_sentence_hash: md5 of f"{voice}_{sentence}"
get_sentence_hash(voice, sentence) == md5(voice \o <<"_">> \o sentence)

-----------------------------------------------------------------------------
(* Audio *)

\* The bytes of a WAV file: whose voice and which text it speaks, its peak
\* sample, its sample width and its length in bytes.

\* the result of TtsHermesMqtt.synthesize when text_to_speech succeeds:
\* 16-bit audio of the voice's model at the voice's sample rate
synthesize(voice, text) ==
    [voice |-> voice.name, text |-> text, peak |-> 20000,
     nbytes |-> 44 + 2 * (sample_rate \div 2) * Len(text)]

\* audioop.mul on 16-bit samples: scale and saturate
audioop_mul(sample, percent) ==
    LET scaled == (sample * percent) \div 100
    IN IF scaled > 32767 THEN 32767 ELSE scaled

\* TtsHermesMqtt.change_volume (volume in percent: 100 is 1.0)
change_volume(wav_bytes, vol) ==
    IF vol = 100
    THEN wav_bytes
    ELSE [wav_bytes EXCEPT !.peak = audioop_mul(wav_bytes.peak, vol)]

\* TtsHermesMqtt.get_wav_duration, in milliseconds, for 16-bit audio
get_wav_duration(wav_bytes) ==
    LET guess_frames == (wav_bytes.nbytes - 44) \div 2
    IN (guess_frames * 1000) \div sample_rate

-----------------------------------------------------------------------------
(* Messages *)

\* the TtsSay messages a task may receive: the site and session are the
\* sender's, here one sender per task
SiteOf == [t \in Tasks |-> IF t = "task1" THEN "site1" ELSE "site2"]
SessionOf == [t \in Tasks |-> IF t = "task1" THEN "session1" ELSE "session2"]

TtsSay(t) ==
    [id : {None, "a"}, lang : {None, "alt"}, text : {<<"hello">>},
     volume : {<<>>},
     site_id : {SiteOf[t]}, session_id : {SessionOf[t]}]
    \cup
    {[id |-> "a", lang |-> None, text |-> <<"hello">>, volume |-> <<100>>,
      site_id |-> SiteOf[t], session_id |-> SessionOf[t]],
     [id |-> "a", lang |-> None, text |-> <<"good", "bye">>, volume |-> <<>>,
      site_id |-> SiteOf[t], session_id |-> SessionOf[t]],
     [id |-> "a", lang |-> "nobody", text |-> <<"hello">>, volume |-> <<>>,
      site_id |-> SiteOf[t], session_id |-> SessionOf[t]]}

NoSay == [id |-> None, lang |-> None, text |-> <<>>, volume |-> <<>>,
          site_id |-> None, session_id |-> None]

\* str(uuid4()): a fresh id, different for every request
uuid4(n) == <<"uuid-1", "uuid-2", "uuid-3", "uuid-4", "uuid-5", "uuid-6">>[n]

\* the ids an AudioPlayFinished message may carry
PlayFinishedIds == {"a", "stray"} \cup {uuid4(n) : n \in 1..nsay}

TtsError(error, s) ==
    [type |-> "TtsError", error |-> error, context |-> s.id,
     site_id |-> s.site_id, session_id |-> s.session_id]

AudioPlayError(error, s) ==
    [type |-> "AudioPlayError", error |-> error, context |-> s.id,
     site_id |-> s.site_id, session_id |-> s.session_id]

AudioPlayBytes(wav_bytes, s, request_id) ==
    [type |-> "AudioPlayBytes", wav_bytes |-> wav_bytes,
     site_id |-> s.site_id, request_id |-> request_id]

TtsSayFinished(s) ==
    [type |-> "TtsSayFinished", id |-> s.id,
     site_id |-> s.site_id, session_id |-> s.session_id]

-----------------------------------------------------------------------------
(* The state of one handler *)

\* the locals of handle_say before its first statement
InitLoc ==
    [num |-> 0, voice_name |-> None, from_cache |-> FALSE,
     cached_wav_path |-> NoPath, original_wav_bytes |-> EmptyBytes,
     wav_bytes |-> EmptyBytes, request_id |-> None,
     finished_event |-> FALSE, wav_timeout |-> <<>>]

\* what a handler has done so far
InitTrace ==
    [synth_called |-> FALSE, player_run |-> FALSE, play_failed |-> FALSE,
     registered |-> FALSE, written |-> <<>>, write_failed |-> FALSE,
     waited |-> FALSE, confirmed |-> FALSE, wait_result |-> None]

Init ==
    /\ cache_dir \in {None, "cache"}
    /\ play_command \in {None, "aplay"}
    /\ volume \in {<<>>, <<50>>}
    /\ play_finished_events = <<>>
    /\ cache = <<>>
    /\ nsay = 0
    /\ pc = [t \in Tasks |-> "idle"]
    /\ say = [t \in Tasks |-> NoSay]
    /\ loc = [t \in Tasks |-> InitLoc]
    /\ out = [t \in Tasks |-> <<>>]
    /\ trace = [t \in Tasks |-> InitTrace]
    /\ hin = <<>>
    /\ hout = <<>>

\* dict.setdefault(k, v): an entry that is there is kept
PutIfAbsent(f, k, v) ==
    [x \in DOMAIN f \cup {k} |-> IF x \in DOMAIN f THEN f[x] ELSE v]

\* f[k] = v, the rest of f kept (a dict assignment, a file written)
Put(f, k, v) == [x \in DOMAIN f \cup {k} |-> IF x = k THEN v ELSE f[x]]

\* dict.pop(k): f without k
Pop(f, k) == [x \in DOMAIN f \ {k} |-> f[x]]

\* The handler t stops at a suspension point p with locals l, yielded messages
\* o and history tr, having left the cache as c and the pending events as e.
Suspend(t, p, l, o, tr, c, e) ==
    /\ pc' = [pc EXCEPT ![t] = p]
    /\ loc' = [loc EXCEPT ![t] = l]
    /\ out' = [out EXCEPT ![t] = o]
    /\ trace' = [trace EXCEPT ![t] = tr]
    /\ cache' = c
    /\ play_finished_events' = e

-----------------------------------------------------------------------------
(* handle_say *)

\* lines 224-227: the finally block yields TtsSayFinished, the last message
\* of the generator
Finally(o, s) == Append(o, TtsSayFinished(s))

\* the except block without a finally block after it
ExceptWithoutFinally(t, s, l, o, tr, c, e, error) ==
    Suspend(t, "done", l, Append(o, TtsError(error, s)), tr, c, e)

\* lines 216-227: an exception raised in the try block is caught, a TtsError
\* is yielded, and the finally block follows.  No statement runs between the
\* two yields and a handler that runs between them finds the shared state
\* as it is after them, so the two yields are one step.
Except(t, s, l, o, tr, c, e, error) ==
    Suspend(t, "done", l, Finally(Append(o, TtsError(error, s)), s), tr, c, e)

\* lines 206-212: the timeout is computed and the handler awaits
\* asyncio.wait_for(finished_event.wait(), timeout=wav_timeout)
Wait(t, l, o, tr, c, e) ==
    Suspend(t, "waiting",
            [l EXCEPT !.wav_timeout =
                <<get_wav_duration(l.wav_bytes) + finished_timeout_extra>>],
            o, [tr EXCEPT !.waited = TRUE], c, e)

\* the bytes sent to the player written to the cache file
SavedBytesScaled(l) == l.wav_bytes

\* line 204: the bytes written to the cache file
SavedBytes(l) == l.original_wav_bytes

\* lines 201-212 with the test of line 202 reduced to cached_wav_path
SaveAndWaitAlways(t, s, l, o, tr, e, write_result) ==
    IF l.cached_wav_path # NoPath
    THEN CASE write_result = "ok" ->
                Wait(t, l, o, [tr EXCEPT !.written = <<SavedBytes(l)>>],
                     Put(cache, l.cached_wav_path, SavedBytes(l)), e)
           [] write_result = "open_fails" ->
                Except(t, s, l, o, [tr EXCEPT !.write_failed = TRUE],
                       cache, e, "OSError: open")
           [] write_result = "write_fails" ->
                Except(t, s, l, o, [tr EXCEPT !.write_failed = TRUE],
                       Put(cache, l.cached_wav_path, EmptyBytes), e,
                       "OSError: write")
    ELSE Wait(t, l, o, tr, cache, e)

\* lines 201-212: save to the cache, then wait.  open(path, "wb") may fail
\* (the file is left as it was) and so may the write (the file is left
\* truncated); either exception leaves the try block.
SaveAndWait(t, s, l, o, tr, e, write_result) ==
    IF (~l.from_cache) /\ l.cached_wav_path # NoPath
    THEN CASE write_result = "ok" ->
                Wait(t, l, o, [tr EXCEPT !.written = <<SavedBytes(l)>>],
                     Put(cache, l.cached_wav_path, SavedBytes(l)), e)
           [] write_result = "open_fails" ->
                Except(t, s, l, o, [tr EXCEPT !.write_failed = TRUE],
                       cache, e, "OSError: open")
           [] write_result = "write_fails" ->
                Except(t, s, l, o, [tr EXCEPT !.write_failed = TRUE],
                       Put(cache, l.cached_wav_path, EmptyBytes), e,
                       "OSError: write")
    ELSE Wait(t, l, o, tr, cache, e)

\* lines 172-199 without the inner try block: a failure of the play command
\* reaches the outer except block
PlayUncaught(t, s, l, o, tr, play_result, write_result) ==
    IF play_command # None
    THEN IF play_result = "ok"
         THEN SaveAndWait(t, s, [l EXCEPT !.finished_event = TRUE], o,
                          [tr EXCEPT !.player_run = TRUE],
                          play_finished_events, write_result)
         ELSE Except(t, s, l, o,
                     [tr EXCEPT !.player_run = TRUE, !.play_failed = TRUE],
                     cache, play_finished_events, "play_command")
    ELSE LET request_id == IF s.id # None THEN s.id ELSE uuid4(l.num)
         IN Suspend(t, "at_play_bytes", [l EXCEPT !.request_id = request_id],
                    Append(o, AudioPlayBytes(l.wav_bytes, s, request_id)),
                    [tr EXCEPT !.registered = TRUE],
                    cache, Put(play_finished_events, request_id, l.num))

\* lines 191-199 taken whatever the configuration: the WAV is always
\* published as AudioPlayBytes
PlayPublishOnly(t, s, l, o, tr, play_result, write_result) ==
    LET request_id == IF s.id # None THEN s.id ELSE uuid4(l.num)
    IN Suspend(t, "at_play_bytes", [l EXCEPT !.request_id = request_id],
               Append(o, AudioPlayBytes(l.wav_bytes, s, request_id)),
               [tr EXCEPT !.registered = TRUE],
               cache, Put(play_finished_events, request_id, l.num))

\* lines 191-199 without line 194: the AudioPlayBytes is yielded with no
\* event registered under its request id
PlayUnregistered(t, s, l, o, tr, play_result, write_result) ==
    IF play_command # None
    THEN IF play_result = "ok"
         THEN SaveAndWait(t, s, [l EXCEPT !.finished_event = TRUE], o,
                          [tr EXCEPT !.player_run = TRUE],
                          play_finished_events, write_result)
         ELSE Suspend(t, "at_play_error", l,
                      Append(o, AudioPlayError("play_command", s)),
                      [tr EXCEPT !.player_run = TRUE, !.play_failed = TRUE],
                      cache, play_finished_events)
    ELSE LET request_id == IF s.id # None THEN s.id ELSE uuid4(l.num)
         IN Suspend(t, "at_play_bytes", [l EXCEPT !.request_id = request_id],
                    Append(o, AudioPlayBytes(l.wav_bytes, s, request_id)),
                    [tr EXCEPT !.registered = TRUE],
                    cache, play_finished_events)

\* lines 172-199: play the WAV with the play command, or publish playBytes
Play(t, s, l, o, tr, play_result, write_result) ==
    IF play_command # None
    THEN IF play_result = "ok"
         THEN \* subprocess.run returned: don't wait for playFinished
              SaveAndWait(t, s, [l EXCEPT !.finished_event = TRUE], o,
                          [tr EXCEPT !.player_run = TRUE],
                          play_finished_events, write_result)
         ELSE Suspend(t, "at_play_error", l,
                      Append(o, AudioPlayError("play_command", s)),
                      [tr EXCEPT !.player_run = TRUE, !.play_failed = TRUE],
                      cache, play_finished_events)
    ELSE LET request_id == IF s.id # None THEN s.id ELSE uuid4(l.num)
         IN Suspend(t, "at_play_bytes", [l EXCEPT !.request_id = request_id],
                    Append(o, AudioPlayBytes(l.wav_bytes, s, request_id)),
                    [tr EXCEPT !.registered = TRUE],
                    cache, Put(play_finished_events, request_id, l.num))

\* the voice of the request, with the default voice for an unknown name
VoiceNameOrDefault(s) ==
    IF s.lang \in DOMAIN voices THEN s.lang ELSE default_voice

\* lines 129-130: the voice of the request
VoiceName(s) == IF s.lang # None THEN s.lang ELSE default_voice

\* lines 160-168: the volume of the request, else the configured one
Scale(s, wav_bytes) ==
    LET vol == IF s.volume # <<>> THEN s.volume ELSE volume
    IN IF vol # <<>> THEN change_volume(wav_bytes, vol[1]) ELSE wav_bytes

\* The event loop gives a new message to the first task that is free.
Before(u, t) == u = "task1" /\ t = "task2"

\* handle_say without the assert of line 157: empty output of the
\* synthesizer goes on to the player
HandleSayNoAssert(t, s, synth_result, play_result, write_result) ==
    /\ pc[t] \in {"idle", "done"}
    /\ \A u \in Tasks : Before(u, t) => pc[u] \notin {"idle", "done"}
    /\ nsay < MaxSay
    /\ nsay' = nsay + 1
    /\ say' = [say EXCEPT ![t] = s]
    /\ UNCHANGED <<cache_dir, play_command, volume, hin, hout>>
    /\ LET voice_name == VoiceName(s)
           l0 == [InitLoc EXCEPT !.num = nsay + 1, !.voice_name = voice_name]
       IN IF voice_name \notin DOMAIN voices
          THEN Except(t, s, l0, <<>>, InitTrace, cache, play_finished_events,
                      "AssertionError: No voice named")
          ELSE
          LET voice == voices[voice_name]
              sentence_hash == get_sentence_hash(cache_id(voice), s.text)
              cached_wav_path == IF cache_dir # None THEN sentence_hash ELSE NoPath
              from_cache == cached_wav_path \in DOMAIN cache
              cached == IF from_cache THEN cache[cached_wav_path] ELSE EmptyBytes
              l1 == [l0 EXCEPT !.cached_wav_path = cached_wav_path,
                               !.from_cache = from_cache]
              tr1 == [InitTrace EXCEPT !.synth_called = (cached = EmptyBytes)]
          IN IF cached = EmptyBytes /\ synth_result = "raises"
             THEN Except(t, s, l1, <<>>, tr1, cache, play_finished_events,
                         "synthesize")
             ELSE
             LET original_wav_bytes ==
                     IF cached # EmptyBytes THEN cached
                     ELSE IF synth_result = "empty" THEN EmptyBytes
                     ELSE synthesize(voice, s.text)
                 l2 == [l1 EXCEPT !.original_wav_bytes = original_wav_bytes,
                                  !.wav_bytes = Scale(s, original_wav_bytes)]
             IN Play(t, s, l2, <<>>, tr1, play_result, write_result)

\* A TtsSay message arrives and handle_say runs to its first suspension point
\* (lines 125-199, and 201-212 when the play command has returned).
HandleSay(t, s, synth_result, play_result, write_result) ==
    /\ pc[t] \in {"idle", "done"}
    /\ \A u \in Tasks : Before(u, t) => pc[u] \notin {"idle", "done"}
    /\ nsay < MaxSay
    /\ nsay' = nsay + 1
    /\ say' = [say EXCEPT ![t] = s]
    /\ UNCHANGED <<cache_dir, play_command, volume, hin, hout>>
    /\ LET voice_name == VoiceName(s)
           l0 == [InitLoc EXCEPT !.num = nsay + 1, !.voice_name = voice_name]
       IN IF voice_name \notin DOMAIN voices
          THEN Except(t, s, l0, <<>>, InitTrace, cache, play_finished_events,
                      "AssertionError: No voice named")
          ELSE
          LET voice == voices[voice_name]
              sentence_hash == get_sentence_hash(cache_id(voice), s.text)
              cached_wav_path == IF cache_dir # None THEN sentence_hash ELSE NoPath
              from_cache == cached_wav_path \in DOMAIN cache
              cached == IF from_cache THEN cache[cached_wav_path] ELSE EmptyBytes
              l1 == [l0 EXCEPT !.cached_wav_path = cached_wav_path,
                               !.from_cache = from_cache]
              tr1 == [InitTrace EXCEPT !.synth_called = (cached = EmptyBytes)]
          IN IF cached = EmptyBytes /\ synth_result = "raises"
             THEN Except(t, s, l1, <<>>, tr1, cache, play_finished_events,
                         "synthesize")
             ELSE IF cached = EmptyBytes /\ synth_result = "empty"
             THEN Except(t, s, l1, <<>>, tr1, cache, play_finished_events,
                         "AssertionError: No WAV data synthesized")
             ELSE
             LET original_wav_bytes ==
                     IF cached = EmptyBytes THEN synthesize(voice, s.text)
                     ELSE cached
                 l2 == [l1 EXCEPT !.original_wav_bytes = original_wav_bytes,
                                  !.wav_bytes = Scale(s, original_wav_bytes)]
             IN Play(t, s, l2, <<>>, tr1, play_result, write_result)

\* handle_say resumed at line 206, without lines 201-204
ResumeWaitOnly(t, write_result) ==
    /\ pc[t] \in {"at_play_bytes", "at_play_error"}
    /\ Wait(t, loc[t], out[t], trace[t], cache, play_finished_events)
    /\ UNCHANGED <<cache_dir, play_command, volume, nsay, say, hin, hout>>

\* The consumer of the generator has published the AudioPlayBytes or the
\* AudioPlayError and resumes handle_say (lines 201-212).
Resume(t, write_result) ==
    /\ pc[t] \in {"at_play_bytes", "at_play_error"}
    /\ SaveAndWait(t, say[t], loc[t], out[t], trace[t], play_finished_events,
                   write_result)
    /\ UNCHANGED <<cache_dir, play_command, volume, nsay, say, hin, hout>>

\* line 212 and 224-227: finished_event is set, wait_for returns and the
\* finally block follows
WaitReturns(t) ==
    /\ pc[t] = "waiting"
    /\ loc[t].finished_event
    /\ Suspend(t, "done", loc[t], Finally(out[t], say[t]),
               [trace[t] EXCEPT !.wait_result =
                   IF trace[t].confirmed THEN "Confirmed" ELSE "NotAwaited"],
               cache, play_finished_events)
    /\ UNCHANGED <<cache_dir, play_command, volume, nsay, say, hin, hout>>

\* the timeout with no except clause for TimeoutError: it reaches the outer
\* except block
TimedOutRaises(t) ==
    /\ pc[t] = "waiting"
    /\ ~loc[t].finished_event
    /\ Except(t, say[t], loc[t], out[t],
              [trace[t] EXCEPT !.wait_result = "TimedOut"],
              cache, play_finished_events, "TimeoutError")
    /\ UNCHANGED <<cache_dir, play_command, volume, nsay, say, hin, hout>>

\* lines 213-214: wav_timeout has elapsed with finished_event not set; the
\* TimeoutError is caught, a warning logged, and the finally block follows
TimedOut(t) ==
    /\ pc[t] = "waiting"
    /\ ~loc[t].finished_event
    /\ Suspend(t, "done", loc[t], Finally(out[t], say[t]),
               [trace[t] EXCEPT !.wait_result = "TimedOut"],
               cache, play_finished_events)
    /\ UNCHANGED <<cache_dir, play_command, volume, nsay, say, hin, hout>>

-----------------------------------------------------------------------------
(* on_message *)

\* on_message popping the event without setting it
PlayFinishedPopOnly(id) ==
    /\ IF id \in DOMAIN play_finished_events
       THEN /\ play_finished_events' = Pop(play_finished_events, id)
            /\ UNCHANGED <<loc, trace>>
       ELSE UNCHANGED <<play_finished_events, loc, trace>>
    /\ UNCHANGED <<cache_dir, play_command, volume, cache, nsay, pc, say, out,
                   hin, hout>>

\* on_message setting the event of every handler that registered the id
PlayFinishedEveryWaiter(id) ==
    /\ IF id \in DOMAIN play_finished_events
       THEN /\ play_finished_events' = Pop(play_finished_events, id)
            /\ loc' = [t \in Tasks |->
                         IF loc[t].request_id = id /\ pc[t] # "done"
                         THEN [loc[t] EXCEPT !.finished_event = TRUE]
                         ELSE loc[t]]
            /\ trace' = [t \in Tasks |->
                         IF loc[t].request_id = id /\ pc[t] # "done"
                         THEN [trace[t] EXCEPT !.confirmed = TRUE]
                         ELSE trace[t]]
       ELSE UNCHANGED <<play_finished_events, loc, trace>>
    /\ UNCHANGED <<cache_dir, play_command, volume, cache, nsay, pc, say, out,
                   hin, hout>>

\* on_message taking any entry when there is none under the id of the message
PlayFinishedAnyEntry(id) ==
    /\ \E k \in (IF id \in DOMAIN play_finished_events THEN {id}
                  ELSE DOMAIN play_finished_events \cup {id}) :
          IF k \in DOMAIN play_finished_events
          THEN LET n == play_finished_events[k]
               IN /\ play_finished_events' = Pop(play_finished_events, k)
                  /\ loc' = [t \in Tasks |->
                               IF loc[t].num = n /\ pc[t] # "done"
                               THEN [loc[t] EXCEPT !.finished_event = TRUE]
                               ELSE loc[t]]
                  /\ trace' = [t \in Tasks |->
                               IF loc[t].num = n /\ pc[t] # "done"
                               THEN [trace[t] EXCEPT !.confirmed = TRUE]
                               ELSE trace[t]]
          ELSE UNCHANGED <<play_finished_events, loc, trace>>
    /\ UNCHANGED <<cache_dir, play_command, volume, cache, nsay, pc, say, out,
                   hin, hout>>

\* lines 264-268: an AudioPlayFinished message pops the event registered
\* under its id, if there is one, and sets it.  Setting the event of a
\* handler that has finished has no effect.
PlayFinished(id) ==
    /\ IF id \in DOMAIN play_finished_events
       THEN LET n == play_finished_events[id]
            IN /\ play_finished_events' = Pop(play_finished_events, id)
               /\ loc' = [t \in Tasks |->
                            IF loc[t].num = n /\ pc[t] # "done"
                            THEN [loc[t] EXCEPT !.finished_event = TRUE]
                            ELSE loc[t]]
               /\ trace' = [t \in Tasks |->
                            IF loc[t].num = n /\ pc[t] # "done"
                            THEN [trace[t] EXCEPT !.confirmed = TRUE]
                            ELSE trace[t]]
       ELSE UNCHANGED <<play_finished_events, loc, trace>>
    /\ UNCHANGED <<cache_dir, play_command, volume, cache, nsay, pc, say, out,
                   hin, hout>>

-----------------------------------------------------------------------------

\* what the synthesizer, the play command and the file system may do
SynthResults == {"ok", "raises", "empty"}
PlayResults == IF play_command = None THEN {"ok"} ELSE {"ok", "fails"}
WriteResults == IF cache_dir = None THEN {"ok"}
                ELSE {"ok", "open_fails", "write_fails"}

Next ==
    \/ \E t \in Tasks : \E s \in TtsSay(t), synth_result \in SynthResults,
          play_result \in PlayResults, write_result \in WriteResults :
            HandleSay(t, s, synth_result, play_result, write_result)
    \/ \E t \in Tasks, write_result \in WriteResults : Resume(t, write_result)
    \/ \E t \in Tasks : WaitReturns(t)
    \/ \E t \in Tasks : TimedOut(t)
    \/ \E id \in PlayFinishedIds : PlayFinished(id)

\* The event loop runs every handler that can run: a resumed generator, a
\* wait whose event is set, a wait whose timer has expired.
Fairness ==
    \A t \in Tasks :
        /\ WF_vars(\E write_result \in WriteResults : Resume(t, write_result))
        /\ WF_vars(WaitReturns(t))
        /\ WF_vars(TimedOut(t))

Spec == Init /\ [][Next]_vars

LiveSpec == Spec /\ Fairness

-----------------------------------------------------------------------------
(* Properties of handle_say and on_message *)

\* the number of messages of type ty in the sequence o
Count(o, ty) == Cardinality({i \in 1..Len(o) : o[i].type = ty})

\* the handler of task t is suspended in handle_say
InFlight(t) == pc[t] \notin {"idle", "done"}

\* the next step of the handler of task t
HandlerStep(t) ==
    \/ \E write_result \in WriteResults : Resume(t, write_result)
    \/ WaitReturns(t)
    \/ TimedOut(t)

\* o ends with the TtsSayFinished of the request s
EndsWithSayFinished(o, s) ==
    /\ Len(o) > 0
    /\ o[Len(o)].type = "TtsSayFinished"
    /\ o[Len(o)].id = s.id
    /\ o[Len(o)].site_id = s.site_id
    /\ o[Len(o)].session_id = s.session_id

\* C1: a handler that has finished has yielded exactly one TtsSayFinished, it
\* carries the id, site id and session id of the request and it is the last
\* message; a handler that has not finished has yielded none and can take a
\* step (every step brings it closer to the end of handle_say).
C1_OneSayFinishedLast ==
    \A t \in Tasks :
        /\ pc[t] = "done" =>
              /\ Count(out[t], "TtsSayFinished") = 1
              /\ EndsWithSayFinished(out[t], say[t])
        /\ InFlight(t) =>
              /\ Count(out[t], "TtsSayFinished") = 0
              /\ ENABLED HandlerStep(t)

\* two requests have finished, one whose wait timed out and one whose cache
\* write failed
C1_Witness ==
    \E t, u \in Tasks :
        /\ pc[t] = "done" /\ trace[t].wait_result = "TimedOut"
        /\ pc[u] = "done" /\ trace[u].write_failed

\* the entry that the request of task t registered is in play_finished_events
Pending(t) ==
    /\ trace[t].registered
    /\ loc[t].request_id \in DOMAIN play_finished_events
    /\ play_finished_events[loc[t].request_id] = loc[t].num

\* C2 as claimed: an entry of play_finished_events is removed when the
\* AudioPlayFinished arrives or when the wait times out, whichever is first:
\* once a request has waited and has yielded its TtsSayFinished, no entry
\* registered by that request remains in play_finished_events.
C2_NoPendingEntryAfterSayFinished ==
    \A t \in Tasks : (pc[t] = "done" /\ trace[t].waited) => ~Pending(t)

\* C5: a request whose voice name (or the default voice, if it has none) is
\* not a configured voice finishes at once with one TtsError carrying its
\* ids, then TtsSayFinished; nothing is synthesized, played, registered or
\* written for it.
C5_UnknownVoiceOnlyError ==
    \A t \in Tasks :
        (/\ pc[t] # "idle"
         /\ (IF say[t].lang # None THEN say[t].lang ELSE default_voice)
                \notin DOMAIN voices)
        => /\ pc[t] = "done"
           /\ Len(out[t]) = 2
           /\ out[t][1].type = "TtsError"
           /\ out[t][1].context = say[t].id
           /\ out[t][1].site_id = say[t].site_id
           /\ out[t][1].session_id = say[t].session_id
           /\ EndsWithSayFinished(out[t], say[t])
           /\ ~trace[t].synth_called
           /\ ~trace[t].player_run
           /\ ~trace[t].registered
           /\ trace[t].written = <<>>
           /\ \A id \in DOMAIN play_finished_events :
                  play_finished_events[id] # loc[t].num

\* a request naming a voice that is not configured has finished
C5_Witness ==
    \E t \in Tasks : pc[t] = "done" /\ say[t].lang = "nobody"

\* the request of task t was sent to the player: published as AudioPlayBytes
\* or given to the play command
Dispatched(t) == Count(out[t], "AudioPlayBytes") > 0 \/ trace[t].player_run

\* an AudioPlayFinished carrying the request id of task t is handled in this
\* step, while the handler has registered its event and has not finished
PlayFinishedFor(t) ==
    /\ trace[t].registered
    /\ pc[t] \in {"at_play_bytes", "waiting"}
    /\ \E id \in PlayFinishedIds : id = loc[t].request_id /\ PlayFinished(id)

\* a confirmed wait ends as Confirmed, not by the timeout, and TtsSayFinished
\* follows with no error
ConfirmedWaitReturns(t) ==
    /\ (pc[t] = "waiting" /\ trace[t].confirmed) =>
            ENABLED WaitReturns(t) /\ ~ENABLED TimedOut(t)
    /\ (pc[t] = "waiting" /\ trace[t].confirmed /\ pc'[t] = "done") =>
            /\ trace'[t].wait_result = "Confirmed"
            /\ Count(out'[t], "TtsError") = 0
            /\ EndsWithSayFinished(out'[t], say[t])

\* C3 as claimed: an AudioPlayFinished carrying the request id of a request
\* published as AudioPlayBytes, handled before the request's wait has timed
\* out, sets the request's event; the wait then returns as Confirmed and
\* TtsSayFinished follows, never the timeout.
C3_PlayFinishedConfirms ==
    [][\A t \in Tasks :
          /\ PlayFinishedFor(t) => loc'[t].finished_event
          /\ ConfirmedWaitReturns(t)]_vars

\* C3 as amended: the same, for an AudioPlayFinished handled while the entry
\* of play_finished_events under that id is the one this request registered.
C3_PlayFinishedConfirmsPending ==
    [][\A t \in Tasks :
          /\ (PlayFinishedFor(t) /\ Pending(t)) => loc'[t].finished_event
          /\ ConfirmedWaitReturns(t)]_vars

\* a request published as AudioPlayBytes has finished with its wait Confirmed
C3_Witness ==
    \E t \in Tasks :
        /\ pc[t] = "done" /\ trace[t].registered
        /\ trace[t].wait_result = "Confirmed"

\* C4: a request published as AudioPlayBytes that waits and whose event is
\* never set ends its wait by the timeout, set to the duration of the audio
\* plus finished_timeout_extra, with no TtsError and no AudioPlayError, and
\* with TtsSayFinished as its last message; and every wait ends.
C4_TimeoutIsNotAnError ==
    /\ [](\A t \in Tasks :
            (/\ pc[t] = "done" /\ trace[t].registered
             /\ trace[t].waited /\ ~trace[t].confirmed)
            => /\ trace[t].wait_result = "TimedOut"
               /\ loc[t].wav_timeout =
                    <<get_wav_duration(loc[t].wav_bytes) + finished_timeout_extra>>
               /\ Count(out[t], "TtsError") = 0
               /\ Count(out[t], "AudioPlayError") = 0
               /\ EndsWithSayFinished(out[t], say[t]))
    /\ \A t \in Tasks :
            (pc[t] = "waiting" /\ trace[t].registered)
            ~> (pc[t] = "done"
                /\ (trace[t].confirmed \/ trace[t].wait_result = "TimedOut"))

\* a request published as AudioPlayBytes has finished after its wait timed out
C4_Witness ==
    \E t \in Tasks :
        /\ pc[t] = "done" /\ trace[t].registered
        /\ ~trace[t].confirmed /\ trace[t].wait_result = "TimedOut"

\* C6 as claimed: a request whose cache write failed yields no TtsError and
\* goes on to wait as if the write had succeeded.
C6_CacheWriteFailureNotFatal ==
    \A t \in Tasks :
        trace[t].write_failed =>
            Count(out[t], "TtsError") = 0 /\ trace[t].waited

\* C7: a request whose play command failed has yielded one AudioPlayError
\* carrying its ids; it yields no TtsError for that, goes on to the cache
\* (on a cache miss with a cache directory the unscaled synthesized bytes are
\* written, unless the write itself fails) and to TtsSayFinished.
C7_PlayFailureNotFatal ==
    \A t \in Tasks :
        trace[t].play_failed =>
            /\ Count(out[t], "AudioPlayError") = 1
            /\ out[t][1].type = "AudioPlayError"
            /\ out[t][1].context = say[t].id
            /\ out[t][1].site_id = say[t].site_id
            /\ out[t][1].session_id = say[t].session_id
            /\ ~trace[t].write_failed => Count(out[t], "TtsError") = 0
            /\ InFlight(t) => ENABLED HandlerStep(t)
            /\ (/\ pc[t] \in {"waiting", "done"} /\ cache_dir # None
                /\ ~loc[t].from_cache /\ ~trace[t].write_failed)
               => /\ trace[t].written = <<loc[t].original_wav_bytes>>
                  /\ loc[t].original_wav_bytes =
                        synthesize(voices[loc[t].voice_name], say[t].text)
            /\ pc[t] = "done" => EndsWithSayFinished(out[t], say[t])

\* a request whose play command failed has finished; its scaled audio went to
\* the player and other bytes, the unscaled ones, to the cache
C7_Witness ==
    \E t \in Tasks :
        /\ pc[t] = "done" /\ trace[t].play_failed
        /\ trace[t].written # <<>>
        /\ loc[t].wav_bytes # loc[t].original_wav_bytes

\* task t takes a step of its handler in this step
Steps(t) == pc'[t] # pc[t] \/ loc'[t].num # loc[t].num

\* C8: every file of the cache is empty (a failed write) or the unscaled audio
\* of a synthesis; what a request writes is what the synthesizer returned for
\* its voice and text, whatever the volume; a request that finds a file with
\* content takes exactly its bytes, scales them with its own volume and
\* leaves the cache as it is.
C8_CacheHoldsUnscaled ==
    [][/\ \A p \in DOMAIN cache' :
            cache'[p] # EmptyBytes =>
                cache'[p] = synthesize(voices[cache'[p].voice], cache'[p].text)
       /\ \A t \in Tasks :
            /\ trace'[t].written # <<>> =>
                 /\ ~loc'[t].from_cache
                 /\ trace'[t].written[1] =
                        synthesize(voices[loc'[t].voice_name], say'[t].text)
            /\ (Steps(t) /\ trace'[t].written # <<>> /\ pc'[t] = "waiting") =>
                 cache'[loc'[t].cached_wav_path] = trace'[t].written[1]
            /\ (Steps(t) /\ loc'[t].from_cache) => cache' = cache
            /\ (/\ loc'[t].num # loc[t].num /\ loc'[t].from_cache
                /\ cache[loc'[t].cached_wav_path] # EmptyBytes)
               => /\ loc'[t].original_wav_bytes = cache[loc'[t].cached_wav_path]
                  /\ loc'[t].wav_bytes =
                        Scale(say'[t], cache[loc'[t].cached_wav_path])]_vars

\* a request has found its file in the cache and sent it scaled to the
\* player; the file holds the unscaled bytes
C8_Witness ==
    \E t \in Tasks :
        /\ loc[t].from_cache /\ Dispatched(t)
        /\ loc[t].wav_bytes # loc[t].original_wav_bytes
        /\ loc[t].cached_wav_path \in DOMAIN cache
        /\ cache[loc[t].cached_wav_path] = loc[t].original_wav_bytes

\* C10 as claimed: the audio sent to the player for a request is audio of the
\* request's voice and text, synthesized for it or read from the cache.
C10_DispatchedAudioIsOfRequestedVoice ==
    \A t \in Tasks :
        Dispatched(t) =>
            /\ loc[t].wav_bytes.voice = loc[t].voice_name
            /\ loc[t].wav_bytes.text = say[t].text

\* the requests that this step confirms
ConfirmedByStep ==
    {t \in Tasks : /\ loc'[t].num = loc[t].num
                   /\ ~trace[t].confirmed /\ trace'[t].confirmed}

\* C11: one AudioPlayFinished message confirms at most one request, also
\* when requests in flight share an id and when the message is repeated; a
\* step that confirms a request removes one entry of play_finished_events;
\* and a request is confirmed at most once: while an entry of its event is in
\* play_finished_events the request has not been confirmed, and it is
\* confirmed only through such an entry.
C11_PlayFinishedAtMostOnce ==
    /\ [](\A id \in DOMAIN play_finished_events : \A t \in Tasks :
            (InFlight(t) /\ loc[t].num = play_finished_events[id])
            => ~trace[t].confirmed /\ ~loc[t].finished_event)
    /\ [][/\ Cardinality(ConfirmedByStep) <= 1
          /\ \A t \in ConfirmedByStep :
                /\ Pending(t)
                /\ play_finished_events' =
                      Pop(play_finished_events, loc[t].request_id)]_vars

\* two requests in flight share an id; the AudioPlayFinished for the id has
\* confirmed one of them and no entry is left for the other
C11_Witness ==
    \E t, u \in Tasks :
        /\ t # u /\ InFlight(t) /\ InFlight(u)
        /\ trace[t].registered /\ trace[u].registered
        /\ loc[t].request_id = loc[u].request_id
        /\ trace[u].confirmed /\ ~trace[t].confirmed
        /\ loc[t].request_id \notin DOMAIN play_finished_events

\* C13 as claimed: a request given to the play command never waits for an
\* AudioPlayFinished or for the timeout: when it reaches the wait, whether
\* the play command succeeded or failed, its event is set and the wait
\* returns at once.
C13_LocalPlayNeverWaits ==
    \A t \in Tasks :
        (trace[t].player_run /\ pc[t] = "waiting") =>
            /\ loc[t].finished_event
            /\ ENABLED WaitReturns(t)
            /\ ~ENABLED TimedOut(t)

\* C14: an AudioPlayFinished whose id has no entry in play_finished_events
\* (an id never registered, or one already popped) changes nothing: no
\* message is yielded, no event is set, play_finished_events and the state
\* of every handler stay as they are.  An event is set only by the play
\* command that returned or by the message that popped its entry.
C14_UnknownPlayFinishedIgnored ==
    /\ [][\A id \in PlayFinishedIds :
            (id \notin DOMAIN play_finished_events /\ PlayFinished(id))
            => UNCHANGED vars]_vars
    /\ [](\A t \in Tasks :
            (InFlight(t) /\ loc[t].finished_event)
            => \/ trace[t].confirmed
               \/ trace[t].player_run /\ ~trace[t].play_failed)

\* a request waits with its entry pending while the id of another request,
\* confirmed before, has no entry any more
C14_Witness ==
    \E t, u \in Tasks :
        /\ pc[t] = "waiting" /\ Pending(t) /\ ~loc[t].finished_event
        /\ trace[u].confirmed
        /\ loc[u].request_id # loc[t].request_id
        /\ loc[u].request_id \in PlayFinishedIds
        /\ loc[u].request_id \notin DOMAIN play_finished_events

\* C15: a request writes its cache file, or tries to, only if it did not
\* find the file (from_cache is not set) and a cache directory is configured,
\* and only after it was sent to the player (its AudioPlayBytes was yielded
\* before the step that writes, or the play command was run); a request that
\* fails before that leaves the cache as it is.
C15_CacheWriteOnlyOnMissAfterDispatch ==
    /\ [](\A t \in Tasks :
            (trace[t].written # <<>> \/ trace[t].write_failed)
            => /\ ~loc[t].from_cache
               /\ cache_dir # None
               /\ loc[t].cached_wav_path # NoPath
               /\ Dispatched(t))
    /\ [][cache' # cache =>
            \E t \in Tasks :
                /\ Steps(t)
                /\ ~loc'[t].from_cache
                /\ cache_dir # None
                /\ Count(out[t], "AudioPlayBytes") = 1 \/ trace'[t].player_run
                /\ \A p \in DOMAIN cache' :
                      (p \notin DOMAIN cache \/ cache'[p] # cache[p])
                      => p = loc'[t].cached_wav_path]_vars

\* one request has written its file after its AudioPlayBytes and another,
\* with a cache directory configured, failed before it was sent to the player
C15_Witness ==
    \E t, u \in Tasks :
        /\ trace[t].registered /\ trace[t].written # <<>>
        /\ pc[u] = "done" /\ ~Dispatched(u) /\ cache_dir # None
        /\ cache # <<>>

\* the request of task t was published as AudioPlayBytes, had not found its
\* file, and a cache directory is configured
BusMiss(t) ==
    trace[t].registered /\ ~loc[t].from_cache /\ cache_dir # None

ReachedPlay(t) == loc[t].wav_bytes # EmptyBytes

\* C17: with a play command configured no request yields an AudioPlayBytes
\* and play_finished_events stays empty; without one no play command is run,
\* and every request that reaches line 172 yields exactly one AudioPlayBytes,
\* its first message, carrying the request's audio, site id and request id:
\* the id of the TtsSay, or a fresh one, which no other request has, when the
\* TtsSay has none.  An entry is put in play_finished_events only by the step
\* that yields the AudioPlayBytes, under the request id of that message.
C17_DispatchExclusive ==
    /\ [](play_command # None =>
            /\ play_finished_events = <<>>
            /\ \A t \in Tasks :
                  Count(out[t], "AudioPlayBytes") = 0 /\ ~trace[t].registered)
    /\ [](play_command = None =>
            \A t \in Tasks :
                /\ ~trace[t].player_run
                /\ Count(out[t], "AudioPlayError") = 0
                /\ trace[t].registered <=> ReachedPlay(t)
                /\ ReachedPlay(t) =>
                      /\ Count(out[t], "AudioPlayBytes") = 1
                      /\ out[t][1] = AudioPlayBytes(loc[t].wav_bytes, say[t],
                                                    loc[t].request_id)
                      /\ say[t].id # None => loc[t].request_id = say[t].id
                      /\ say[t].id = None =>
                            \A u \in Tasks \ {t} :
                                /\ loc[t].request_id # say[u].id
                                /\ loc[t].request_id # loc[u].request_id)
    /\ [][\A id \in DOMAIN play_finished_events' :
            (\/ id \notin DOMAIN play_finished_events
             \/ play_finished_events'[id] # play_finished_events[id])
            => /\ play_command = None
               /\ \E t \in Tasks :
                     /\ loc'[t].num = play_finished_events'[id]
                     /\ loc'[t].num # loc[t].num
                     /\ pc'[t] = "at_play_bytes"
                     /\ loc'[t].request_id = id
                     /\ out'[t][1].request_id = id]_vars

\* two requests are in flight, each published as AudioPlayBytes and
\* registered: one under the id of its TtsSay, one, whose TtsSay has no id,
\* under a fresh id
C17_Witness ==
    \E t, u \in Tasks :
        /\ InFlight(t) /\ InFlight(u)
        /\ say[t].id = None /\ Pending(t) /\ loc[t].request_id = uuid4(loc[t].num)
        /\ say[u].id = "a" /\ Pending(u) /\ loc[u].request_id = "a"

\* the synthesizer was run for the request of task t and gave no audio: it
\* raised an exception or returned no bytes
SynthFailed(t) == trace[t].synth_called /\ loc[t].wav_bytes = EmptyBytes

\* C18: a request whose synthesis raised or returned nothing has finished
\* with exactly two messages, a TtsError carrying its id, site id and session
\* id and then its TtsSayFinished; it has yielded no AudioPlayBytes, run no
\* play command, registered no event and written no file, and its step left
\* play_finished_events and the cache as they were.
C18_SynthesisFailureIsError ==
    /\ [](\A t \in Tasks :
            SynthFailed(t) =>
                /\ pc[t] = "done"
                /\ Len(out[t]) = 2
                /\ \E error \in {"synthesize",
                                  "AssertionError: No WAV data synthesized"} :
                        out[t][1] = [type |-> "TtsError", error |-> error,
                                     context |-> say[t].id,
                                     site_id |-> say[t].site_id,
                                     session_id |-> say[t].session_id]
                /\ EndsWithSayFinished(out[t], say[t])
                /\ Count(out[t], "AudioPlayBytes") = 0
                /\ ~trace[t].player_run
                /\ ~trace[t].registered
                /\ trace[t].written = <<>> /\ ~trace[t].write_failed
                /\ \A id \in DOMAIN play_finished_events :
                      play_finished_events[id] # loc[t].num)
    /\ [][\A t \in Tasks :
            (loc'[t].num # loc[t].num /\ trace'[t].synth_called
             /\ loc'[t].wav_bytes = EmptyBytes)
            => /\ cache' = cache
               /\ play_finished_events' = play_finished_events]_vars

\* with a file of another request in the cache, a request that did not find
\* its own file has finished after its synthesizer returned nothing
C18_Witness ==
    \E t \in Tasks :
        /\ pc[t] = "done" /\ SynthFailed(t) /\ ~loc[t].from_cache
        /\ out[t][1].error = "AssertionError: No WAV data synthesized"
        /\ cache # <<>>

\* C19 as claimed: a request that finds a file under its cache path, whatever
\* the file holds, also nothing, is marked from_cache and never runs the
\* synthesizer.
C19_CacheHitNeverSynthesizes ==
    \A t \in Tasks : loc[t].from_cache => ~trace[t].synth_called

\* C20 as claimed: a cache file, once it exists, keeps its content whatever
\* the requests do; here for the files that hold audio: no step removes such
\* a file or replaces its audio with other audio.
C20_CacheEntriesNeverChange ==
    [][\A p \in DOMAIN cache :
          cache[p] # EmptyBytes =>
              /\ p \in DOMAIN cache'
              /\ cache'[p] # EmptyBytes => cache'[p] = cache[p]]_vars

\* an AudioPlayFinished carrying the request id of task t is handled in this
\* step, while the handler is suspended at the yield of its AudioPlayBytes
\* and has not started to wait
PlayFinishedBeforeWait(t) ==
    /\ pc[t] = "at_play_bytes"
    /\ \E id \in PlayFinishedIds : id = loc[t].request_id /\ PlayFinished(id)

\* the step in which the handler of task t yields its AudioPlayBytes has
\* left the event of the request in play_finished_events under its request id
RegisteredAtYield(t) ==
    (loc'[t].num # loc[t].num /\ pc'[t] = "at_play_bytes") =>
        /\ loc'[t].request_id \in DOMAIN play_finished_events'
        /\ play_finished_events'[loc'[t].request_id] = loc'[t].num

\* C21 as claimed: the event is registered when the AudioPlayBytes is
\* yielded, and an AudioPlayFinished for the request id handled after the
\* yield and before the wait starts sets the event of the request; its wait
\* then returns at once and not by the timeout.
C21_NoLostPlayFinished ==
    [][\A t \in Tasks :
          /\ RegisteredAtYield(t)
          /\ PlayFinishedBeforeWait(t) =>
                loc'[t].finished_event /\ trace'[t].confirmed
          /\ (pc[t] = "at_play_bytes" /\ trace[t].confirmed
               /\ pc'[t] = "waiting") =>
                loc'[t].finished_event /\ trace'[t].confirmed
          /\ ConfirmedWaitReturns(t)]_vars

\* C21 as amended: the same, for an AudioPlayFinished handled while the entry
\* of play_finished_events under the request id is the one this request
\* registered.
C21_NoLostPlayFinishedPending ==
    [][\A t \in Tasks :
          /\ RegisteredAtYield(t)
          /\ (PlayFinishedBeforeWait(t) /\ Pending(t)) =>
                loc'[t].finished_event /\ trace'[t].confirmed
          /\ (pc[t] = "at_play_bytes" /\ trace[t].confirmed
               /\ pc'[t] = "waiting") =>
                loc'[t].finished_event /\ trace'[t].confirmed
          /\ ConfirmedWaitReturns(t)]_vars

\* a request suspended at the yield of its AudioPlayBytes has been confirmed
\* before its wait: its event is set and its entry has been popped
C21_Witness ==
    \E t \in Tasks :
        /\ pc[t] = "at_play_bytes" /\ trace[t].confirmed
        /\ loc[t].finished_event /\ ~trace[t].waited
        /\ loc[t].request_id \notin DOMAIN play_finished_events

\* the requests of tasks t and u are in flight, both published as
\* AudioPlayBytes under the same request id, that of t first
EarlierSameId(t, u) ==
    /\ t # u /\ InFlight(t) /\ InFlight(u)
    /\ trace[t].registered /\ trace[u].registered
    /\ loc[t].request_id = loc[u].request_id
    /\ loc[t].num < loc[u].num

\* C22: of two requests in flight published under the same request id, the
\* entry of play_finished_events is not that of the earlier one; a request
\* whose entry has been replaced before it was confirmed is not confirmed by
\* any later message, and its wait ends by the timeout only.  A step changes
\* or removes the entry under an id only by registering a request under that
\* id or by handling an AudioPlayFinished with that id, and it confirms only
\* a request of that id: requests with different ids leave each other's
\* entry and wait as they are.
C22_LaterRegistrationReplaces ==
    /\ [](\A t, u \in Tasks :
            EarlierSameId(t, u) =>
                /\ ~Pending(t)
                /\ loc[t].request_id \in DOMAIN play_finished_events =>
                      play_finished_events[loc[t].request_id] = loc[u].num)
    /\ [](\A t \in Tasks :
            (/\ pc[t] = "waiting" /\ trace[t].registered
             /\ ~trace[t].confirmed /\ ~Pending(t))
            => ENABLED TimedOut(t) /\ ~ENABLED WaitReturns(t))
    /\ [][/\ \A t \in Tasks :
               (/\ InFlight(t) /\ trace[t].registered /\ ~Pending(t)
                /\ ~trace[t].confirmed /\ loc'[t].num = loc[t].num)
               => /\ ~trace'[t].confirmed /\ ~Pending(t)'
                  /\ pc'[t] = "done" /\ trace[t].waited =>
                        trace'[t].wait_result = "TimedOut"
          /\ \A id \in DOMAIN play_finished_events :
               (\/ id \notin DOMAIN play_finished_events'
                \/ play_finished_events'[id] # play_finished_events[id])
               => \/ PlayFinished(id)
                  \/ \E u \in Tasks :
                        /\ loc'[u].num # loc[u].num
                        /\ pc'[u] = "at_play_bytes"
                        /\ loc'[u].request_id = id
          /\ \A id \in PlayFinishedIds : \A t \in Tasks :
               (PlayFinished(id) /\ loc[t].request_id # id)
               => loc'[t] = loc[t] /\ trace'[t] = trace[t]]_vars

\* of two requests published under the same id the later one has been
\* confirmed and the earlier one has finished by the timeout
C22_Witness ==
    \E t, u \in Tasks :
        /\ t # u /\ trace[t].registered /\ trace[u].registered
        /\ loc[t].request_id = loc[u].request_id
        /\ loc[t].num < loc[u].num
        /\ trace[u].confirmed
        /\ pc[t] = "done" /\ trace[t].wait_result = "TimedOut"

-----------------------------------------------------------------------------
(* The cache key on its own: get_sentence_hash applied to two pairs of       *)
(* strings over a small alphabet that holds the separator.                  *)

Alphabet == {"a", "_"}

Strings == UNION {[1..n -> Alphabet] : n \in 0..MaxLen}

InitKey ==
    /\ hin \in [v1 : Strings, t1 : Strings, v2 : Strings, t2 : Strings]
    /\ hout = <<>>
    /\ cache_dir = None
    /\ play_command = None
    /\ volume = <<>>
    /\ play_finished_events = <<>>
    /\ cache = <<>>
    /\ nsay = 0
    /\ pc = [t \in Tasks |-> "idle"]
    /\ say = [t \in Tasks |-> NoSay]
    /\ loc = [t \in Tasks |-> InitLoc]
    /\ out = [t \in Tasks |-> <<>>]
    /\ trace = [t \in Tasks |-> InitTrace]

ComputeKeys ==
    /\ hout = <<>>
    /\ hout' = <<get_sentence_hash(hin.v1, hin.t1),
                 get_sentence_hash(hin.v2, hin.t2)>>
    /\ UNCHANGED <<hin, sayVars>>

NextKey == ComputeKeys

SpecKey == InitKey /\ [][NextKey]_vars

\* C9 as claimed: two keys are equal if and only if the voice identities are
\* equal and the texts are equal, for all strings, also those that hold '_'.
C9_KeyInjectiveOnPairs ==
    hout # <<>> =>
        ((hout[1] = hout[2]) <=> (hin.v1 = hin.v2 /\ hin.t1 = hin.t2))

HasSeparator(str) == \E i \in 1..Len(str) : str[i] = "_"

\* C9 as amended: two keys are equal if and only if the voice identities are
\* equal and the texts are equal, for all pairs that share the voice
\* identity, or share the text, or whose voice identities hold no '_'.
C9_KeyInjectiveWhereUnambiguous ==
    (/\ hout # <<>>
     /\ \/ hin.v1 = hin.v2
        \/ hin.t1 = hin.t2
        \/ ~HasSeparator(hin.v1) /\ ~HasSeparator(hin.v2))
    => ((hout[1] = hout[2]) <=> (hin.v1 = hin.v2 /\ hin.t1 = hin.t2))

\* the keys of one voice identity holding '_' for two texts, one holding '_',
\* have been computed and differ
C9_Witness ==
    /\ hout # <<>>
    /\ hin.v1 = hin.v2 /\ HasSeparator(hin.v1)
    /\ hin.t1 # hin.t2 /\ HasSeparator(hin.t1)
    /\ hout[1] # hout[2]

-----------------------------------------------------------------------------
(* handle_get_voices on its own: it reads self.voices and no other state.   *)

\* the keys of self.voices in the order of iteration
VoiceIds == <<"default", "alt">>

\* the GetVoices messages
GetVoices ==
    [id : {None, "a", "b", "c"},
     site_id : {"default", "site1", "site2", "site3", "site4"}]

Voice(voice_id) == [voice_id |-> voice_id]

Voices(vs, get_voices) ==
    [type |-> "Voices", voices |-> vs, id |-> get_voices.id,
     site_id |-> get_voices.site_id]

\* lines 241-243: the TtsError of handle_get_voices has no session id
GetVoicesError(error, get_voices) ==
    [type |-> "TtsError", error |-> error, context |-> get_voices.id,
     site_id |-> get_voices.site_id, session_id |-> None]

\* line 235 and lines 237-238: the list after n voices have been appended
Appended(n) == [i \in 1..n |-> Voice(VoiceIds[i])]

InitVoices ==
    /\ hin \in GetVoices
    /\ hout = [pc |-> "idle", voices |-> <<>>, out |-> <<>>]
    /\ cache_dir = None
    /\ play_command = None
    /\ volume = <<>>
    /\ play_finished_events = <<>>
    /\ cache = <<>>
    /\ nsay = 0
    /\ pc = [t \in Tasks |-> "idle"]
    /\ say = [t \in Tasks |-> NoSay]
    /\ loc = [t \in Tasks |-> InitLoc]
    /\ out = [t \in Tasks |-> <<>>]
    /\ trace = [t \in Tasks |-> InitTrace]

\* lines 235-246: handle_get_voices runs to its first yield.  The loop
\* appends all the voices (n = Len(VoiceIds)), or an exception is raised
\* after n of them have been appended and the except block yields a TtsError.
HandleGetVoices(n) ==
    /\ hout.pc = "idle"
    /\ hout' = IF n = Len(VoiceIds)
               THEN [pc |-> "done", voices |-> Appended(n),
                     out |-> <<Voices(Appended(n), hin)>>]
               ELSE [pc |-> "at_tts_error", voices |-> Appended(n),
                     out |-> <<GetVoicesError("handle_get_voices", hin)>>]
    /\ UNCHANGED <<hin, sayVars>>

\* line 246: resumed after the TtsError, handle_get_voices goes on to the
\* statement after the try statement and yields the Voices message
ResumeGetVoices ==
    /\ hout.pc = "at_tts_error"
    /\ hout' = [hout EXCEPT !.pc = "done",
                            !.out = Append(@, Voices(hout.voices, hin))]
    /\ UNCHANGED <<hin, sayVars>>

NextVoices ==
    \/ \E n \in 0..Len(VoiceIds) : HandleGetVoices(n)
    \/ ResumeGetVoices

SpecVoices == InitVoices /\ [][NextVoices]_vars

\* C12 as claimed: a GetVoices request that has been answered has either one
\* TtsError and no Voices message, or no TtsError and exactly one Voices
\* message that lists every configured voice and carries the request's ids.
C12_ErrorInsteadOfVoices ==
    hout.pc = "done" =>
        IF Count(hout.out, "TtsError") > 0
        THEN Count(hout.out, "Voices") = 0
        ELSE /\ hout.out =  <<Voices(Appended(Len(VoiceIds)), hin)>>
             /\ {v.voice_id : v \in {hout.out[1].voices[i] :
                                        i \in 1..Len(VoiceIds)}}
                    = DOMAIN voices

====
